---- MODULE Spec2Model ----
(***************************************************************************)
(* Model of pdf_context_extraction: the dynamic record type built by       *)
(* schema.build_model, the validation of an extraction agent's raw output  *)
(* against it, the declaration checks of agents.FieldSpecModel, and the    *)
(* per-document loop of orchestrator.ExtractionOrchestrator.process with   *)
(* its flattening into a table (to_dataframe).                             *)
(*                                                                         *)
(* Three specifications share the operators:                               *)
(*   Spec   the run of ExtractionOrchestrator.process and to_dataframe;    *)
(*   SpecC  SchemaAgent.run's declaration checks followed by build_model;  *)
(*   SpecV  build_model followed by one validation of a raw value set.     *)
(***************************************************************************)
EXTENDS Integers, Sequences, FiniteSets, TLC

VARIABLES
    \* ---- ExtractionOrchestrator.process / to_dataframe (Spec)
    pc,             \* position in process: start, compile, preprocess, extract, done, raised
    files,          \* argument files
    percent_scale,  \* argument percent_scale
    field_specs,    \* local field_specs (as an Opt)
    model,          \* local model (as an Opt)
    idx,            \* 1-based position of the for loop over files
    results,        \* local results
    escaped,        \* the exception that left process (as an Opt)
    calls,          \* collaborator invocations, in order
    table,          \* to_dataframe(results) (as an Opt)
    \* ---- SchemaAgent.run + build_model (SpecC)
    cpc,            \* start, declared, rejected, built, raised
    c_response,     \* the LLM's candidate declarations
    c_specs,        \* the FieldSpec list SchemaAgent.run returned
    c_built,        \* build_model's outcome
    \* ---- build_model + model_validate (SpecV)
    vpc,            \* start, built, validated
    v_specs,        \* the FieldSpec list compiled
    v_scale,        \* the percent scale compiled with
    v_built,        \* build_model's outcome
    v_raw,          \* the raw value set handed to validation
    v_result        \* the validation outcome

pvars == <<pc, files, percent_scale, field_specs, model, idx, results, escaped, calls, table>>
cvars == <<cpc, c_response, c_specs, c_built>>
vvars == <<vpc, v_specs, v_scale, v_built, v_raw, v_result>>
vars == <<pvars, cvars, vvars>>

(***************************************************************************)
(* Python values.  Every scalar is a record [tag, s, n] so that values of  *)
(* different Python types can be compared.  Numbers are fixed point:       *)
(* n counts units of 1/UNIT.  NaN is a float of its own.                   *)
(***************************************************************************)
UNIT == 100 * 100

PyNone == [tag |-> "none", s |-> "", n |-> 0]
Text(str) == [tag |-> "text", s |-> str, n |-> 0]
Num(k) == [tag |-> "num", s |-> "", n |-> k]
NaN == [tag |-> "nan", s |-> "", n |-> 0]
Bool(b) == [tag |-> "bool", s |-> "", n |-> IF b THEN 1 ELSE 0]
\* A {amount, currency} mapping: amount in n, currency in s.
MoneyDict(amount, currency) == [tag |-> "dict", s |-> currency, n |-> amount]

\* Optional[...]: None or a value.
Nothing == [some |-> FALSE, val |-> <<>>]
Some(x) == [some |-> TRUE, val |-> x]

\* The characters of the strings the model decomposes.
Chars(str) ==
    CASE str = "" -> <<>>
      [] str = " " -> <<" ">>
      [] str = "r" -> <<"r">>
      [] str = "g" -> <<"g">>
      [] str = "a" -> <<"a">>
      [] str = "b" -> <<"b">>
      [] str = "us" -> <<"u", "s">>
      [] str = "usd" -> <<"u", "s", "d">>
      [] str = "USD" -> <<"U", "S", "D">>
      [] str = "status" -> <<"s", "t", "a", "t", "u", "s">>
      [] str = "1a" -> <<"1", "a">>
      [] str = "a-b" -> <<"a", "-", "b">>
      [] str = "a_1" -> <<"a", "_", "1">>
      [] str = "a\n" -> <<"a", "\n">>

Whitespace == {" "}

\* Python truthiness of a str / of an Optional[List[str]].
StrTruthy(str) == Len(Chars(str)) > 0
ListTruthy(opt) == opt.some /\ Len(opt.val) > 0

\* str.upper() on the currency codes used.
Upper(str) ==
    CASE str = "usd" -> "USD"
      [] str = "us" -> "US"
      [] str = "USD" -> "USD"

(***************************************************************************)
(* schema.py: FieldSpec and build_model.                                   *)
(* A FieldSpec is [name, type, required, enum_values]; description,        *)
(* examples and currency_hint are carried by the dataclass and read by no  *)
(* branch of build_model beyond the Field's description.                   *)
(***************************************************************************)
FieldType ==
    {"str", "bool", "int", "float", "decimal", "date", "datetime", "percent", "enum", "money"}

FieldSpec(name, type, required, enum_values) ==
    [name |-> name, type |-> type, required |-> required, enum_values |-> enum_values]

\* A Python dict is a sequence of [key, val] in insertion order;
\* d[k] = v keeps the position of a key already present.
DictKeys(d) == [i \in 1..Len(d) |-> d[i].key]
DictHas(d, k) == \E i \in 1..Len(d) : d[i].key = k
DictGet(d, k) == d[CHOOSE i \in 1..Len(d) : d[i].key = k].val
DictSet(d, k, v) ==
    IF DictHas(d, k)
    THEN [i \in 1..Len(d) |-> IF d[i].key = k THEN [key |-> k, val |-> v] ELSE d[i]]
    ELSE Append(d, [key |-> k, val |-> v])

\* (annotation, Field(default=...)) of one spec: the annotation is the kind with
\* its Literal values (enum) or its Percent_<scale> subclass (percent);
\* default is ... (required) or None.
FieldEntry(spec, scale) ==
    [kind |-> spec.type,
     required |-> spec.required,
     values |-> IF spec.type = "enum" THEN spec.enum_values.val ELSE <<>>,
     scale |-> IF spec.type = "percent" THEN scale ELSE ""]

NoError == [msg |-> "", arg |-> ""]

RECURSIVE BuildFields(_, _, _)
BuildFields(specs, scale, model_fields) ==
    IF specs = <<>>
    THEN [raised |-> FALSE, error |-> NoError, fields |-> model_fields]
    ELSE LET spec == Head(specs) IN
         IF spec.type = "enum" /\ ~ListTruthy(spec.enum_values)
         THEN [raised |-> TRUE,
               error |-> [msg |-> "declared enum without values", arg |-> spec.name],
               fields |-> <<>>]
         ELSE IF spec.type \notin FieldType
         THEN [raised |-> TRUE,
               error |-> [msg |-> "Unsupported field type", arg |-> spec.type],
               fields |-> <<>>]
         ELSE BuildFields(Tail(specs), scale,
                          DictSet(model_fields, spec.name, FieldEntry(spec, scale)))

\* build_model: raises ValueError, or returns the model (its fields, extra = forbid).
build_model(specs, scale) == BuildFields(specs, scale, <<>>)

(***************************************************************************)
(* schema.py: Percent.validate, on the class Percent.configure(scale)      *)
(* returns.                                                                *)
(***************************************************************************)
Rejected == [ok |-> FALSE, val |-> PyNone]
Accepted(v) == [ok |-> TRUE, val |-> v]

\* float(value): a float (NaN included), or TypeError / ValueError.
FloatOf(value) ==
    CASE value.tag = "num" -> Accepted(value)
      [] value.tag = "nan" -> Accepted(NaN)
      [] value.tag = "bool" -> Accepted(Num(value.n * UNIT))
      [] value.tag = "text" /\ value.s = "45" -> Accepted(Num(45 * UNIT))
      [] value.tag = "text" /\ value.s = "nan" -> Accepted(NaN)
      [] OTHER -> Rejected

\* Float arithmetic and comparison: anything with NaN is NaN / False.
FloatDiv100(x) == IF x.tag = "nan" THEN NaN ELSE Num(x.n \div 100)
FloatLt(x, k) == x.tag = "num" /\ x.n < k
FloatGt(x, k) == x.tag = "num" /\ x.n > k

PercentValidate(scale, value) ==
    LET f == FloatOf(value) IN
    IF ~f.ok THEN Rejected
    ELSE LET val == IF scale = "0-100" THEN FloatDiv100(f.val) ELSE f.val IN
         IF FloatLt(val, 0) \/ FloatGt(val, UNIT) THEN Rejected ELSE Accepted(val)

(***************************************************************************)
(* Validation of one raw value against a field's annotation, and of a raw  *)
(* value set against the model (BaseModel.model_validate, extra = forbid). *)
(* No annotation is Optional, so a key that is present is validated even   *)
(* when its value is None; a key that is absent takes the default without  *)
(* validation.                                                             *)
(***************************************************************************)
DecimalTexts == {"19.99"}
IsoDates == {"2024-01-31"}
IsoDateTimes == {"2024-01-31T10:00:00"}

MoneyValidate(value) ==
    IF value.tag = "dict" /\ Len(Chars(value.s)) = 3
    THEN Accepted(MoneyDict(value.n, Upper(value.s)))
    ELSE Rejected

ValidateValue(entry, value) ==
    CASE entry.kind = "percent" -> PercentValidate(entry.scale, value)
      [] entry.kind = "enum" ->
            IF value.tag = "text" /\ \E i \in 1..Len(entry.values) : entry.values[i] = value.s
            THEN Accepted(value) ELSE Rejected
      [] entry.kind = "money" -> MoneyValidate(value)
      [] entry.kind = "str" -> IF value.tag = "text" THEN Accepted(value) ELSE Rejected
      [] entry.kind = "bool" -> IF value.tag = "bool" THEN Accepted(value) ELSE Rejected
      [] entry.kind = "int" ->
            IF value.tag = "num" /\ value.n % UNIT = 0 THEN Accepted(value) ELSE Rejected
      [] entry.kind = "float" ->
            IF value.tag \in {"num", "nan"} THEN Accepted(value) ELSE Rejected
      [] entry.kind = "decimal" ->
            IF value.tag = "num" \/ (value.tag = "text" /\ value.s \in DecimalTexts)
            THEN Accepted(value) ELSE Rejected
      [] entry.kind = "date" ->
            IF value.tag = "text" /\ value.s \in IsoDates THEN Accepted(value) ELSE Rejected
      [] entry.kind = "datetime" ->
            IF value.tag = "text" /\ value.s \in IsoDateTimes THEN Accepted(value) ELSE Rejected

\* One declared field against the raw set (a dict).
FieldOutcome(key, entry, raw) ==
    IF DictHas(raw, key)
    THEN ValidateValue(entry, DictGet(raw, key))
    ELSE IF entry.required THEN Rejected ELSE Accepted(PyNone)

\* extra = "ignore" (pydantic's default) in place of "forbid".
ExtraKeys_Ignore(fields, raw) == {}

\* Keys of the raw set the model does not declare (extra = forbid).
ExtraKeys(fields, raw) == {raw[i].key : i \in {j \in 1..Len(raw) : ~DictHas(fields, raw[j].key)}}

\* model_validate followed by model_dump: ok with the dumped record, or the
\* set of offending keys.
ModelValidate(fields, raw) ==
    LET out == [i \in 1..Len(fields) |-> FieldOutcome(fields[i].key, fields[i].val, raw)]
        bad == {fields[i].key : i \in {j \in 1..Len(fields) : ~out[j].ok}}
               \cup ExtraKeys(fields, raw)
    IN  [ok |-> bad = {},
         errors |-> bad,
         data |-> IF bad = {}
                  THEN [i \in 1..Len(fields) |-> [key |-> fields[i].key, val |-> out[i].val]]
                  ELSE <<>>]

(***************************************************************************)
(* SpecV: build_model on a declaration list, then one validation.          *)
(***************************************************************************)
MaxFields == 2
MaxExtra == 1

Scales == {"0-1", "0-100"}
NameAt == <<"a", "b", "c", "d">>
ExtraKeyAt == <<"zz", "yy", "xx">>
EnumValues == <<"r", "g">>

\* Declarations at a position: every kind, required or not, at the first;
\* a few kinds after it.
KindsAt(i) == IF i = 1 THEN FieldType ELSE {"str", "int", "percent"}
DeclsAt(i) ==
    {FieldSpec(NameAt[i], t, req, IF t = "enum" THEN Some(EnumValues) ELSE Nothing) :
        t \in KindsAt(i), req \in BOOLEAN}

RECURSIVE SpecListsFrom(_, _)
SpecListsFrom(i, n) ==
    IF i > n THEN {<<>>}
    ELSE {<<d>> \o rest : d \in DeclsAt(i), rest \in SpecListsFrom(i + 1, n)}

VSpecLists == UNION {SpecListsFrom(1, n) : n \in 1..MaxFields}

\* Raw values an extraction may return for a field of each kind.
PercentRaws ==
    {Num(-100), Num(0), Num(4500), Num(UNIT), Num(10100), Num(45 * UNIT),
     Num(100 * UNIT), Num(101 * UNIT), Num(150 * UNIT), NaN, Text("45"), Text("abc")}
RawFor(entry) ==
    {PyNone} \cup
    CASE entry.kind = "percent" -> PercentRaws
      [] entry.kind = "enum" -> {Text(entry.values[1]), Text("R")}
      [] entry.kind = "money" -> {MoneyDict(199900, "usd"), MoneyDict(199900, "us")}
      [] entry.kind = "str" -> {Text("abc"), Num(3 * UNIT)}
      [] entry.kind = "bool" -> {Bool(TRUE), Text("abc")}
      [] entry.kind = "int" -> {Num(3 * UNIT), Num(4500), Text("abc")}
      [] entry.kind = "float" -> {Num(4500), Text("abc")}
      [] entry.kind = "decimal" -> {Num(4500), Text("19.99"), Text("abc")}
      [] entry.kind = "date" -> {Text("2024-01-31"), Text("abc")}
      [] entry.kind = "datetime" -> {Text("2024-01-31T10:00:00"), Text("abc")}

\* Raw value sets over the declared fields from position i on, each absent or
\* present, followed by up to MaxExtra undeclared keys.
RECURSIVE ExtraSets(_)
ExtraSets(j) ==
    IF j > MaxExtra THEN {<<>>}
    ELSE {<<>>} \cup {<<[key |-> ExtraKeyAt[j], val |-> Text("abc")]>> \o rest :
                         rest \in ExtraSets(j + 1)}

RECURSIVE RawSetsFrom(_, _)
RawSetsFrom(fields, i) ==
    IF i > Len(fields) THEN ExtraSets(1)
    ELSE LET rest == RawSetsFrom(fields, i + 1) IN
         rest \cup {<<[key |-> fields[i].key, val |-> v]>> \o r :
                       v \in RawFor(fields[i].val), r \in rest}

RawSets(fields) == RawSetsFrom(fields, 1)

VInit ==
    /\ vpc = "start"
    /\ v_specs = <<>>
    /\ v_scale = "0-1"
    /\ v_built = build_model(<<>>, "0-1")
    /\ v_raw = <<>>
    /\ v_result = ModelValidate(<<>>, <<>>)

VBuild ==
    /\ vpc = "start"
    /\ \E specs \in VSpecLists, scale \in Scales :
          /\ v_specs' = specs
          /\ v_scale' = scale
          /\ v_built' = build_model(specs, scale)
    /\ vpc' = "built"
    /\ UNCHANGED <<v_raw, v_result>>

VValidate ==
    /\ vpc = "built"
    /\ ~v_built.raised
    /\ \E raw \in RawSets(v_built.fields) :
          /\ v_raw' = raw
          /\ v_result' = ModelValidate(v_built.fields, raw)
    /\ vpc' = "validated"
    /\ UNCHANGED <<v_specs, v_scale, v_built>>

(***************************************************************************)
(* agents.py: FieldSpecModel's validators and SchemaAgent.run.             *)
(***************************************************************************)
Letters ==
    {"a", "b", "c", "d", "e", "f", "g", "h", "i", "j", "k", "l", "m", "n", "o", "p", "q",
     "r", "s", "t", "u", "v", "w", "x", "y", "z",
     "A", "B", "C", "D", "E", "F", "G", "H", "I", "J", "K", "L", "M", "N", "O", "P", "Q",
     "R", "S", "T", "U", "V", "W", "X", "Y", "Z"}
Digits == {"0", "1", "2", "3", "4", "5", "6", "7", "8", "9"}

\* re.match(r"^[A-Za-z][A-Za-z0-9_]*$", value): $ matches at the end of the
\* string and also just before a newline that ends it.
validate_name(value) ==
    LET cs == Chars(value)
        body == IF Len(cs) > 0 /\ cs[Len(cs)] = "\n" THEN SubSeq(cs, 1, Len(cs) - 1) ELSE cs
    IN  /\ Len(body) > 0
        /\ body[1] \in Letters
        /\ \A i \in 2..Len(body) : body[i] \in Letters \cup Digits \cup {"_"}

\* The model validator (mode = "after"): ok, and the enum_values it leaves.
validate_enum_and_money(cand) ==
    IF cand.type = "enum"
    THEN IF ~ListTruthy(cand.enum_values) THEN [ok |-> FALSE, enum_values |-> Nothing]
         ELSE IF \E i \in 1..Len(cand.enum_values.val) : ~StrTruthy(cand.enum_values.val[i])
         THEN [ok |-> FALSE, enum_values |-> Nothing]
         ELSE [ok |-> TRUE, enum_values |-> cand.enum_values]
    ELSE [ok |-> TRUE, enum_values |-> Nothing]

\* FieldSpecModel(**cand): the field validators (name, the FieldType literal),
\* then the model validator.
FieldSpecModelOk(cand) ==
    /\ validate_name(cand.name)
    /\ cand.type \in FieldType
    /\ validate_enum_and_money(cand).ok

\* SchemaAgent.run on an LLM response: raises when a declaration fails
\* FieldSpecModel, else the FieldSpec list.
SchemaAgentRun(response) ==
    IF \A i \in 1..Len(response) : FieldSpecModelOk(response[i])
    THEN [raised |-> FALSE,
          specs |-> [i \in 1..Len(response) |->
                        FieldSpec(response[i].name, response[i].type, response[i].required,
                                  validate_enum_and_money(response[i]).enum_values)]]
    ELSE [raised |-> TRUE, specs |-> <<>>]

(***************************************************************************)
(* SpecC: SchemaAgent.run on an LLM response, then build_model.            *)
(***************************************************************************)
MaxDecls == 2

CandNames == {"a", "b", "a_1", "", "1a", "a-b", "a\n"}
EnumCands ==
    {Nothing, Some(<<>>), Some(<<"">>), Some(<<" ">>), Some(<<"r">>), Some(<<"r", " ">>)}
CandDecls ==
    {FieldSpec(nm, "enum", TRUE, ev) : nm \in CandNames, ev \in EnumCands}
    \cup {FieldSpec(nm, "str", req, ev) :
            nm \in CandNames, req \in BOOLEAN, ev \in {Nothing, Some(<<"r">>)}}
    \cup {FieldSpec(nm, t, TRUE, Nothing) :
            nm \in CandNames, t \in (FieldType \ {"enum", "str"}) \cup {"text"}}

RECURSIVE Responses(_)
Responses(n) ==
    IF n = 0 THEN {<<>>}
    ELSE Responses(n - 1) \cup
         {Append(r, d) : r \in {x \in Responses(n - 1) : Len(x) = n - 1}, d \in CandDecls}

CInit ==
    /\ cpc = "start"
    /\ c_response = <<>>
    /\ c_specs = <<>>
    /\ c_built = build_model(<<>>, "0-1")

CSchemaAgentRun ==
    /\ cpc = "start"
    /\ \E response \in Responses(MaxDecls) :
          LET r == SchemaAgentRun(response) IN
          /\ c_response' = response
          /\ c_specs' = r.specs
          /\ cpc' = IF r.raised THEN "rejected" ELSE "declared"
    /\ UNCHANGED c_built

CBuildModel ==
    /\ cpc = "declared"
    /\ \E scale \in Scales :
          LET b == build_model(c_specs, scale) IN
          /\ c_built' = b
          /\ cpc' = IF b.raised THEN "raised" ELSE "built"
    /\ UNCHANGED <<c_response, c_specs>>

(***************************************************************************)
(* orchestrator.py: DocumentResult, _preprocess, process, to_dataframe.    *)
(***************************************************************************)
MaxFiles == 3

\* A pathlib.Path: its parent, its name and the name's suffix.
PathSet ==
    {[dir |-> "in", name |-> "a.pdf", suffix |-> ".pdf"],
     [dir |-> "in", name |-> "b.PDF", suffix |-> ".PDF"],
     [dir |-> "in", name |-> "c.txt", suffix |-> ".txt"]}

\* Path(f) of a Path is that path.
Path(f) == f

\* str.lower() on the suffixes used.
Lower(str) ==
    CASE str = ".PDF" -> ".pdf"
      [] OTHER -> str

RECURSIVE FileLists(_)
FileLists(n) ==
    IF n = 0 THEN {<<>>}
    ELSE FileLists(n - 1) \cup
         {Append(fs, f) : fs \in {x \in FileLists(n - 1) : Len(x) = n - 1}, f \in PathSet}

\* What the collaborators may raise, as str(exc).
SchemaExcs == {"timeout", "bad response"}
LoadExcs == {"cannot open file"}
ExtractExcs == {"api error"}
ValidationExc == "validation error"

\* f"Schema agent error: {exc}"
SchemaAgentError(exc) ==
    CASE exc = "timeout" -> "Schema agent error: timeout"
      [] exc = "bad response" -> "Schema agent error: bad response"

DocumentResult(document, status, data, error) ==
    [document |-> document, status |-> status, data |-> data, error |-> error]

\* The schema error reported for the first file only.
SchemaErrorResults_FirstOnly(fs, exc) ==
    [i \in 1..(IF Len(fs) > 0 THEN 1 ELSE 0) |->
        DocumentResult(fs[i], "error", Nothing, Some(SchemaAgentError(exc)))]

\* The list process returns when schema_agent.run raises.
SchemaErrorResults(fs, exc) ==
    [i \in 1..Len(fs) |->
        DocumentResult(Path(fs[i]), "error", Nothing, Some(SchemaAgentError(exc)))]

\* results.append(...) of the try body and of its except clause.
AppendOk(res, path, data) == Append(res, DocumentResult(path, "ok", Some(data), Nothing))
AppendError_Skip(res, path, exc) == res
\* The except clause keeping a (partial) record beside the error.
AppendError_WithData(res, path, exc) ==
    Append(res, DocumentResult(path, "error", Some(<<>>), Some(exc)))
AppendError(res, path, exc) == Append(res, DocumentResult(path, "error", Nothing, Some(exc)))

\* The declaration lists the schema collaborator may return: an object with
\* run(str) -> List[FieldSpec]; FieldSpec itself checks nothing.
PipelineSpecLists ==
    {<<>>,
     <<FieldSpec("a", "str", TRUE, Nothing), FieldSpec("b", "int", FALSE, Nothing)>>,
     <<FieldSpec("b", "int", FALSE, Nothing), FieldSpec("a", "str", TRUE, Nothing)>>,
     <<FieldSpec("status", "str", TRUE, Nothing)>>,
     <<FieldSpec("a", "percent", TRUE, Nothing)>>,
     <<FieldSpec("a", "enum", TRUE, Nothing)>>,
     <<FieldSpec("a", "text", TRUE, Nothing)>>}

PInit ==
    /\ pc = "start"
    /\ files \in FileLists(MaxFiles)
    /\ percent_scale \in Scales
    /\ field_specs = Nothing
    /\ model = Nothing
    /\ idx = 0
    /\ results = <<>>
    /\ escaped = Nothing
    /\ calls = <<>>
    /\ table = Nothing

\* lines 61-74: schema_agent.run raises.
SchemaRunRaises ==
    /\ pc = "start"
    /\ \E exc \in SchemaExcs : results' = SchemaErrorResults(files, exc)
    /\ calls' = Append(calls, "schema_agent.run")
    /\ pc' = "done"
    /\ UNCHANGED <<files, percent_scale, field_specs, model, idx, escaped, table>>

\* line 63: schema_agent.run returns.
SchemaRunReturns ==
    /\ pc = "start"
    /\ \E specs \in PipelineSpecLists : field_specs' = Some(specs)
    /\ calls' = Append(calls, "schema_agent.run")
    /\ pc' = "compile"
    /\ UNCHANGED <<files, percent_scale, model, idx, results, escaped, table>>

\* lines 76-81: build_pydantic_model, outside any try; then the loop's entry.
BuildModel ==
    /\ pc = "compile"
    /\ LET b == build_model(field_specs.val, percent_scale) IN
       IF b.raised
       THEN /\ escaped' = Some(b.error.msg)
            /\ pc' = "raised"
            /\ UNCHANGED <<model, idx>>
       ELSE /\ model' = Some(b.fields)
            /\ idx' = 1
            /\ pc' = IF Len(files) = 0 THEN "done" ELSE "preprocess"
            /\ UNCHANGED escaped
    /\ UNCHANGED <<files, percent_scale, field_specs, results, calls, table>>

\* lines 82-84 with _preprocess (41-48): the suffix is not .pdf.
PreprocessUnsupported ==
    /\ pc = "preprocess"
    /\ Lower(Path(files[idx]).suffix) # ".pdf"
    /\ escaped' = Some("Unsupported file type")
    /\ pc' = "raised"
    /\ UNCHANGED <<files, percent_scale, field_specs, model, idx, results, calls, table>>

\* pdf_preprocessor.load raises.
PreprocessLoadRaises ==
    /\ pc = "preprocess"
    /\ Lower(Path(files[idx]).suffix) = ".pdf"
    /\ \E exc \in LoadExcs : escaped' = Some(exc)
    /\ calls' = Append(calls, "pdf_preprocessor.load")
    /\ pc' = "raised"
    /\ UNCHANGED <<files, percent_scale, field_specs, model, idx, results, table>>

\* pdf_preprocessor.load returns the context.
PreprocessLoads ==
    /\ pc = "preprocess"
    /\ Lower(Path(files[idx]).suffix) = ".pdf"
    /\ calls' = Append(calls, "pdf_preprocessor.load")
    /\ pc' = "extract"
    /\ UNCHANGED <<files, percent_scale, field_specs, model, idx, results, escaped, table>>

\* The loop's next iteration, or return results.
NextPc(i) == IF i > Len(files) THEN "done" ELSE "preprocess"

\* lines 85-109: extraction_agent.run raises (the call itself, or the
\* validation of what the LLM returned).
ExtractRaises ==
    /\ pc = "extract"
    /\ \E exc \in ExtractExcs : results' = AppendError(results, Path(files[idx]), exc)
    /\ calls' = Append(calls, "extraction_agent.run")
    /\ idx' = idx + 1
    /\ pc' = NextPc(idx + 1)
    /\ UNCHANGED <<files, percent_scale, field_specs, model, escaped, table>>

ExtractReturns ==
    /\ pc = "extract"
    /\ \E raw \in RawSets(model.val) :
          LET v == ModelValidate(model.val, raw) IN
          results' = IF v.ok
                     THEN AppendOk(results, Path(files[idx]), v.data)
                     ELSE AppendError(results, Path(files[idx]), ValidationExc)
    /\ calls' = Append(calls, "extraction_agent.run")
    /\ idx' = idx + 1
    /\ pc' = NextPc(idx + 1)
    /\ UNCHANGED <<files, percent_scale, field_specs, model, escaped, table>>

\* ---- to_dataframe
Missing == [tag |-> "missing", s |-> "", n |-> 0]

RECURSIVE DictUpdate(_, _)
DictUpdate(d, e) ==
    IF e = <<>> THEN d ELSE DictUpdate(DictSet(d, Head(e).key, Head(e).val), Tail(e))

\* lines 120-126: one row's dict.
RowOf(res) ==
    LET row == <<[key |-> "document_name", val |-> Text(res.document.name)],
                 [key |-> "status", val |-> Text(res.status)],
                 [key |-> "error", val |-> IF res.error.some THEN Text(res.error.val) ELSE PyNone]>>
    IN  IF res.data.some /\ Len(res.data.val) > 0 THEN DictUpdate(row, res.data.val) ELSE row

\* pd.DataFrame(rows): the columns are the rows' keys in order of first
\* appearance; a row without a column's key holds a missing value there.
RECURSIVE ColumnsOf(_, _)
ColumnsOf(rows, cols) ==
    IF rows = <<>> THEN cols
    ELSE LET keys == DictKeys(Head(rows))
             new == SelectSeq(keys, LAMBDA k : \A i \in 1..Len(cols) : cols[i] # k)
         IN  ColumnsOf(Tail(rows), cols \o new)

DataFrame(rows) ==
    LET cols == ColumnsOf(rows, <<>>) IN
    [columns |-> cols,
     cells |-> [r \in 1..Len(rows) |->
                  [c \in 1..Len(cols) |->
                      IF DictHas(rows[r], cols[c]) THEN DictGet(rows[r], cols[c]) ELSE Missing]]]

to_dataframe(res) == DataFrame([i \in 1..Len(res) |-> RowOf(res[i])])

ToDataframe ==
    /\ pc = "done"
    /\ ~table.some
    /\ table' = Some(to_dataframe(results))
    /\ UNCHANGED <<pc, files, percent_scale, field_specs, model, idx, results, escaped, calls>>

(***************************************************************************)
(* The specifications.                                                     *)
(***************************************************************************)
Init == PInit /\ CInit /\ VInit

Next ==
    \/ SchemaRunRaises /\ UNCHANGED <<cvars, vvars>>
    \/ SchemaRunReturns /\ UNCHANGED <<cvars, vvars>>
    \/ BuildModel /\ UNCHANGED <<cvars, vvars>>
    \/ PreprocessUnsupported /\ UNCHANGED <<cvars, vvars>>
    \/ PreprocessLoadRaises /\ UNCHANGED <<cvars, vvars>>
    \/ PreprocessLoads /\ UNCHANGED <<cvars, vvars>>
    \/ ExtractRaises /\ UNCHANGED <<cvars, vvars>>
    \/ ExtractReturns /\ UNCHANGED <<cvars, vvars>>
    \/ ToDataframe /\ UNCHANGED <<cvars, vvars>>

Spec == Init /\ [][Next]_vars

\* process is not running: one call with no file, left at its start.
PIdle ==
    /\ pc = "start" /\ files = <<>> /\ percent_scale = "0-1"
    /\ field_specs = Nothing /\ model = Nothing /\ idx = 0 /\ results = <<>>
    /\ escaped = Nothing /\ calls = <<>> /\ table = Nothing

InitC == PIdle /\ CInit /\ VInit

NextC ==
    \/ CSchemaAgentRun /\ UNCHANGED <<pvars, vvars>>
    \/ CBuildModel /\ UNCHANGED <<pvars, vvars>>

SpecC == InitC /\ [][NextC]_vars

InitV == PIdle /\ CInit /\ VInit

NextV ==
    \/ VBuild /\ UNCHANGED <<pvars, cvars>>
    \/ VValidate /\ UNCHANGED <<pvars, cvars>>

SpecV == InitV /\ [][NextV]_vars

(***************************************************************************)
(* Properties.                                                             *)
(***************************************************************************)
SchemaFailed == pc = "done" /\ ~field_specs.some
CompileFailed == field_specs.some /\ ~model.some /\ pc # "compile"
NoDocumentCall ==
    \A i \in 1..Len(calls) : calls[i] \notin {"pdf_preprocessor.load", "extraction_agent.run"}
CompileReasons == {"declared enum without values", "Unsupported field type"}
SchemaReasons == {"Schema agent error: timeout", "Schema agent error: bad response"}

\* results is one error outcome per file, in order, all with the reason given.
UniformFailure(reason) ==
    /\ Len(results) = Len(files)
    /\ \A i \in 1..Len(files) :
          /\ results[i].document = files[i]
          /\ results[i].status = "error"
          /\ ~results[i].data.some
          /\ results[i].error = Some(reason)

\* C1: once the schema is resolved and compiled, no error leaves process: a run
\* that has ended has returned, with an outcome for every document.
C1_NoErrorEscapes ==
    (model.some /\ pc \in {"done", "raised"}) =>
        (pc = "done" /\ ~escaped.some /\ Len(results) = Len(files))

\* C2: when schema_agent.run raises, process returns one error outcome per
\* input file, all with the same "Schema agent error: ..." reason, and neither
\* the preprocessor nor the extraction agent has been called.
C2_SchemaFailureUniform ==
    ~field_specs.some =>
        /\ pc \in {"start", "done"}
        /\ ~escaped.some
        /\ NoDocumentCall
        /\ pc = "done" => \E reason \in SchemaReasons : UniformFailure(reason)

C2_Witness == SchemaFailed /\ Len(files) = MaxFiles /\ Len(results) = MaxFiles

\* C3: when build_model raises, process returns a uniform error outcome for
\* every input file and attempts no document.
C3_CompileFailureUniform ==
    CompileFailed =>
        /\ pc = "done"
        /\ ~escaped.some
        /\ NoDocumentCall
        /\ \E reason \in CompileReasons : UniformFailure(reason)

\* C4: the list process returns has one DocumentResult per input file, the
\* i-th for the i-th file, whichever documents succeeded or failed.
C4_OnePerFileInOrder ==
    pc = "done" =>
        /\ Len(results) = Len(files)
        /\ \A i \in 1..Len(files) : results[i].document = files[i]

C4_Witness ==
    /\ pc = "done"
    /\ model.some
    /\ \E i, j, k \in 1..Len(results) :
          /\ i < j /\ j < k
          /\ results[i].status = "ok" /\ results[j].status = "error" /\ results[k].status = "ok"
          /\ files[i] # files[j]

\* ---- the validation's inputs, as the claims speak of them
VDeclared(k) == \E i \in 1..Len(v_specs) : v_specs[i].name = k
VAbsentOrNull(k) == ~DictHas(v_raw, k) \/ DictGet(v_raw, k) = PyNone
VDumped(k) == DictGet(v_result.data, k)

\* C5: a field with no entry or an explicit null in the raw set fails the
\* validation when it is required, and when it is optional it is no error
\* and is null in the normalized record.
C5_NullRequiredOptional ==
    vpc = "validated" =>
        \A i \in 1..Len(v_specs) :
            VAbsentOrNull(v_specs[i].name) =>
                IF v_specs[i].required
                THEN ~v_result.ok
                ELSE /\ v_specs[i].name \notin v_result.errors
                     /\ v_result.ok => VDumped(v_specs[i].name) = PyNone

\* C6: a raw value set with a key that is no declared field is rejected.
C6_ExtraKeyRejected ==
    vpc = "validated" =>
        ((\E j \in 1..Len(v_raw) : ~VDeclared(v_raw[j].key)) => ~v_result.ok)

\* An undeclared key beside declared fields that are all present and valid.
C6_Witness ==
    /\ vpc = "validated"
    /\ Len(v_specs) = MaxFields
    /\ \E j \in 1..Len(v_raw) : ~VDeclared(v_raw[j].key)
    /\ \A i \in 1..Len(v_specs) :
          /\ DictHas(v_raw, v_specs[i].name)
          /\ v_specs[i].name \notin v_result.errors
    /\ ~v_result.ok

\* C7: no model is built from declarations two of which share a name.
C7_DuplicateNameRejected ==
    cpc = "built" =>
        \A i, j \in 1..Len(c_specs) : i # j => c_specs[i].name # c_specs[j].name

\* C8: a percent field's number is divided by 100 exactly under scale 0-100,
\* and is accepted, as that scaled value, exactly when the scaled value is in
\* [0, 1].
C8_PercentScaledAndBounded ==
    vpc = "validated" =>
        \A i \in 1..Len(v_specs) :
            LET k == v_specs[i].name IN
            (v_specs[i].type = "percent" /\ DictHas(v_raw, k)
                /\ DictGet(v_raw, k).tag \in {"num", "nan"}) =>
                LET v == DictGet(v_raw, k)
                    isNumber == v.tag = "num"
                    scaled == IF v_scale = "0-100" THEN v.n \div 100 ELSE v.n
                    inUnit == isNumber /\ 0 <= scaled /\ scaled <= UNIT
                IN  /\ (k \notin v_result.errors) <=> inUnit
                    /\ v_result.ok => VDumped(k) = Num(scaled)

\* C9: an enum declaration passes the declaration checks and is compiled only
\* with enum_values present, non-empty and free of empty or whitespace-only
\* entries.
IsBlank(str) == \A i \in 1..Len(Chars(str)) : Chars(str)[i] \in Whitespace
C9_EnumValuesChecked ==
    cpc \in {"declared", "built"} =>
        \A i \in 1..Len(c_response) :
            c_response[i].type = "enum" =>
                /\ c_response[i].enum_values.some
                /\ Len(c_response[i].enum_values.val) > 0
                /\ \A j \in 1..Len(c_response[i].enum_values.val) :
                      ~IsBlank(c_response[i].enum_values.val[j])

\* C10: the table of a run's outcomes has the columns document_name, status,
\* error, then one column per declared field in declaration order, and the
\* rows of failures are empty in every field column.
C10_TableColumns ==
    (table.some /\ model.some /\ Len(results) > 0) =>
        /\ table.val.columns =
              <<"document_name", "status", "error">>
                 \o [i \in 1..Len(field_specs.val) |-> field_specs.val[i].name]
        /\ \A r \in 1..Len(results) :
              results[r].status = "error" =>
                 \A c \in 4..Len(table.val.columns) : table.val.cells[r][c] = Missing

\* C11: a declaration whose name is not a letter followed by letters, digits
\* and underscores only (the empty name, a leading digit, any other character)
\* fails the declaration checks: none is declared or compiled.
NameIsIdentifier(str) ==
    LET cs == Chars(str) IN
    /\ Len(cs) > 0
    /\ cs[1] \in Letters
    /\ \A i \in 2..Len(cs) : cs[i] \in Letters \cup Digits \cup {"_"}
C11_InvalidNameRejected ==
    cpc \in {"declared", "built"} =>
        \A i \in 1..Len(c_response) : NameIsIdentifier(c_response[i].name)

\* C12: every DocumentResult process returns has status ok or error, never
\* skipped: ok exactly with data set and error None, error exactly with error
\* set and data None.
C12_StatusDataError ==
    pc = "done" =>
        \A i \in 1..Len(results) :
            /\ results[i].status \in {"ok", "error"}
            /\ results[i].status = "ok" <=> (results[i].data.some /\ ~results[i].error.some)
            /\ results[i].status = "error" <=> (results[i].error.some /\ ~results[i].data.some)

\* A returned list that holds an ok outcome with fields beside an error outcome.
C12_Witness ==
    /\ pc = "done"
    /\ model.some
    /\ Len(results) = MaxFiles
    /\ \E i, j \in 1..Len(results) :
          /\ results[i].status = "ok" /\ Len(results[i].data.val) > 0
          /\ results[j].status = "error" /\ results[j].error.val = ValidationExc

====
